---- MODULE Spec2Model ----
(***************************************************************************)
(* A model of git-analyzer (src/main.go): the command-line run that        *)
(* validates a repository and then runs, in sequence, the stale-branch     *)
(* analysis, the unmerged-branch analysis and the TODO/FIXME comment       *)
(* analysis.                                                               *)
(*                                                                         *)
(* Strings the program inspects character by character (paths, branch      *)
(* names, source lines) are sequences of one-character strings.  Instants  *)
(* and durations are integers counted in ticks, TicksPerHour ticks to the  *)
(* hour; an instant is the number of ticks since the Unix epoch.           *)
(***************************************************************************)
EXTENDS Integers, Sequences, FiniteSets, TLC

VARIABLES
    pc,        \* position of main: "start", "validate", "chdir", "branches", "prs", "todos", "exit"
    args,      \* the command line as the flag package parsed it
    env,       \* the repository, the file tree and the clock the run meets
    config,    \* the Config parseFlags returned
    exitCode,  \* process exit status, -1 while the process runs
    events,    \* <<"start"|"end", analysis>> in the order they happened
    logs,      \* messages written with log.Printf / log.Fatalf
    stale,     \* analyzeStaleBranches: what getStaleBranches returned and what was printed
    unmerged,  \* analyzeUnmergedPRs: what getUnmergedBranches did, returned, and what was printed
    todo       \* analyzeTodoComments: what findTodoComments did, returned, and what was printed

vars == <<pc, args, env, config, exitCode, events, logs, stale, unmerged, todo>>

----------------------------------------------------------------------------
(* Bounds of the model.                                                    *)

\* Resolution of the clock: ticks per hour.
TicksPerHour == 2
\* Longest branch listing (in lines) in the inputs around the cutoff.
MaxBranches == 2
\* Most files of a walked tree in the inputs for the walk.
MaxFiles == 2
\* Longest list handed to the sort in the inputs for the sort.
MaxSorted == 4
\* A threshold, in days, beyond the range of a Duration.
HugeDays == 200000
\* The wall clock, in hours since the epoch, when the run starts.
NowHours == 498000

----------------------------------------------------------------------------
(* strings package: the operations main.go uses, on character sequences.   *)

LowerLetters ==
    <<"a", "b", "c", "d", "e", "f", "g", "h", "i", "j", "k", "l", "m", "n", "o", "p", "q", "r", "s", "t", "u", "v", "w", "x", "y", "z">>

UpperLetters ==
    <<"A", "B", "C", "D", "E", "F", "G", "H", "I", "J", "K", "L", "M", "N", "O", "P", "Q", "R", "S", "T", "U", "V", "W", "X", "Y", "Z">>

Whitespace == {" ", "\t", "\n", "\f", "\r"}

IndexIn(c, letters) == CHOOSE i \in 1..Len(letters) : letters[i] = c

\* strings.ToUpper / strings.ToLower on one ASCII character.
ToUpperCh(c) ==
    IF \E i \in 1..Len(LowerLetters) : LowerLetters[i] = c
    THEN UpperLetters[IndexIn(c, LowerLetters)] ELSE c

ToLowerCh(c) ==
    IF \E i \in 1..Len(UpperLetters) : UpperLetters[i] = c
    THEN LowerLetters[IndexIn(c, UpperLetters)] ELSE c

ToUpper(s) == [i \in 1..Len(s) |-> ToUpperCh(s[i])]
ToLower(s) == [i \in 1..Len(s) |-> ToLowerCh(s[i])]

\* Whether sub occurs in s starting at index i.
OccursAt(s, sub, i) ==
    /\ i >= 1
    /\ i + Len(sub) - 1 <= Len(s)
    /\ \A k \in 1..Len(sub) : s[i + k - 1] = sub[k]

\* strings.Contains
Contains(s, sub) == \E i \in 1..(Len(s) + 1) : OccursAt(s, sub, i)

\* strings.HasPrefix
HasPrefix(s, prefix) == OccursAt(s, prefix, 1)

\* The elements of a sequence.
Range(s) == {s[i] : i \in 1..Len(s)}

----------------------------------------------------------------------------
(* time package.                                                           *)

\* Ticks in 24 hours: the divisor of "Hours() / 24".
Day == 24 * TicksPerHour

\* The largest Duration (2^63-1 ns), in whole hours, and in ticks.
MaxDurationHours == 2562047
MaxDuration == MaxDurationHours * TicksPerHour

\* Time.Sub: t - u, saturated at the largest and smallest Duration.
Sub(t, u) ==
    IF t - u > MaxDuration THEN MaxDuration
    ELSE IF t - u < -MaxDuration THEN -MaxDuration
    ELSE t - u

\* Time.Before
Before(t, u) == t < u

\* Time.AddDate(0, 0, days) on a local time: the same wall-clock reading
\* `days` calendar days later.  A calendar day of the local zone is 24 hours
\* long except across a daylight-saving transition; zone is the change of the
\* zone's offset between the two dates, as a shift of the resulting instant.
AddDate(t, days, zone) == t + days * Day + zone

\* The shifts a zone's transitions produce: none, or one hour either way.
ZoneShifts == {-TicksPerHour, 0, TicksPerHour}

\* int(f) for a float64 f = d / Day: the quotient truncated toward zero.
TruncDiv(d, n) == IF d >= 0 THEN d \div n ELSE -((-d) \div n)

\* A mutation of DaysOf: the quotient rounded down.
DaysOfFloor(d) == d \div Day

\* int(d.Hours() / 24) for a Duration d.
DaysOf(d) == TruncDiv(d, Day)

----------------------------------------------------------------------------
(* parseFlags, validateGitRepo.                                            *)

\* A mutation of parseFlags: the toggles are returned as given.
parseFlagsNoFallback(a) ==
    [ShowHelp |-> a.help, StaleDays |-> a.staleDays, TodoDays |-> a.todoDays,
     CheckBranches |-> a.branches, CheckPRs |-> a.prs, CheckTodos |-> a.todos]

\* parseFlags: the Config of a parsed command line a.  The repository path is
\* represented by what it leads to (env.isRepo, env.chdirOk).
parseFlags(a) ==
    LET none == ~a.branches /\ ~a.prs /\ ~a.todos
    IN  [ShowHelp |-> a.help, StaleDays |-> a.staleDays, TodoDays |-> a.todoDays,
         CheckBranches |-> IF none THEN TRUE ELSE a.branches,
         CheckPRs      |-> IF none THEN TRUE ELSE a.prs,
         CheckTodos    |-> IF none THEN TRUE ELSE a.todos]

\* validateGitRepo: "" when <path>/.git exists, else the error.
validateGitRepo(e) == IF e.isRepo THEN "" ELSE "not a git repository"

----------------------------------------------------------------------------
(* sort.Slice.  On a short slice (fewer than 7 elements in every Go        *)
(* release) the library's sort is the insertion sort below; the inputs of  *)
(* this model never exceed that length.                                    *)

\* A mutation of StaleLess: ascending.
StaleLessAscending(x, y) == x.DaysStale < y.DaysStale

\* The less function of analyzeStaleBranches: most stale first.
StaleLess(x, y) == x.DaysStale > y.DaysStale

\* The less function of analyzeTodoComments: oldest first.
TodoLess(x, y) == x.DaysOld > y.DaysOld

\* The less function passed by the caller `by`.
Less(by, x, y) == IF by = "stale" THEN StaleLess(x, y) ELSE TodoLess(x, y)

Swap(s, i, j) == [s EXCEPT ![i] = s[j], ![j] = s[i]]

\* The inner loop: for j := i; j > a && less(j, j-1); j-- { swap(j, j-1) }
RECURSIVE Sink(_, _, _)
Sink(s, j, by) ==
    IF j > 1 /\ Less(by, s[j], s[j - 1])
    THEN Sink(Swap(s, j, j - 1), j - 1, by)
    ELSE s

\* The outer loop: for i := a + 1; i < b; i++
RECURSIVE SortFrom(_, _, _)
SortFrom(s, i, by) ==
    IF i > Len(s) THEN s ELSE SortFrom(Sink(s, i, by), i + 1, by)

SortSlice(s, by) == SortFrom(s, 2, by)

----------------------------------------------------------------------------
(* Branch listings: the output of "git branch --format=name TAB date TAB   *)
(* author", one line per element.  A line is blank, or has fewer than      *)
(* three tab-separated parts ("short"), or is a record ("rec") whose date  *)
(* field time.Parse accepts (date.ok, giving the instant date.ts) or not.  *)

sHEAD == <<"H", "E", "A", "D">>
sOriginPrefix == <<"o", "r", "i", "g", "i", "n", "/">>

\* The loop body's skips (blank line, too few parts, HEAD reference,
\* unparseable date): whether a listing line yields a parsed branch.
ParsedBranch(l) ==
    /\ l.kind = "rec"
    /\ ~Contains(l.name, sHEAD)
    /\ l.date.ok

\* The loop of getStaleBranches over the listing from line i on.
RECURSIVE StaleScan(_, _, _, _)
StaleScan(listing, i, cutoffDate, clock) ==
    IF i > Len(listing) THEN <<>>
    ELSE LET l == listing[i]
             rest == StaleScan(listing, i + 1, cutoffDate, clock)
         IN  IF ParsedBranch(l) /\ Before(l.date.ts, cutoffDate)
             THEN << [Name       |-> l.name,
                      LastCommit |-> l.date.ts,
                      Author     |-> l.author,
                      DaysStale  |-> DaysOf(Sub(clock, l.date.ts)),
                      IsRemote   |-> HasPrefix(l.name, sOriginPrefix)] >> \o rest
             ELSE rest

\* getStaleBranches: time.Now() reads e.now; each time.Since reads e.now + e.lag.
getStaleBranches(staleDays, e) ==
    LET cutoffDate == AddDate(e.now, -staleDays, e.zone)
    IN  IF ~e.branchCmdOk
        THEN [branches |-> <<>>, err |-> "git branch failed"]
        ELSE [branches |-> StaleScan(e.listing, 1, cutoffDate, e.now + e.lag),
              err |-> ""]

\* A mutation of mainBranches: develop is tried first.
mainBranchesDevelopFirst == <<"develop", "main", "master">>

\* The candidate main-line names, in the order they are tried.
mainBranches == <<"main", "master", "develop">>

\* The loop over mainBranches from candidate i on: the existence checks made
\* (git show-ref) and the name chosen, "" when none exists.
RECURSIVE SelectMain(_, _, _)
SelectMain(refs, i, checks) ==
    IF i > Len(mainBranches) THEN [mainBranch |-> "", checks |-> checks]
    ELSE IF mainBranches[i] \in refs
         THEN [mainBranch |-> mainBranches[i], checks |-> Append(checks, mainBranches[i])]
         ELSE SelectMain(refs, i + 1, Append(checks, mainBranches[i]))

\* The loop of getUnmergedBranches over the listing from line i on.
RECURSIVE UnmergedScan(_, _, _)
UnmergedScan(listing, i, clock) ==
    IF i > Len(listing) THEN <<>>
    ELSE LET l == listing[i]
             rest == UnmergedScan(listing, i + 1, clock)
         IN  IF ParsedBranch(l)
             THEN << [Name       |-> l.name,
                      LastCommit |-> l.date.ts,
                      Author     |-> l.author,
                      DaysStale  |-> DaysOf(Sub(clock, l.date.ts)),
                      IsRemote   |-> TRUE] >> \o rest
             ELSE rest

\* getUnmergedBranches: besides the result, the existence checks made and the
\* argument of the --no-merged query ("" when the query was not issued).
getUnmergedBranches(e) ==
    LET sel == SelectMain(e.refs, 1, <<>>)
    IN  IF sel.mainBranch = ""
        THEN [branches |-> <<>>, err |-> "no main branch found (main, master, or develop)",
              checks |-> sel.checks, query |-> ""]
        ELSE IF ~e.unmergedCmdOk
        THEN [branches |-> <<>>, err |-> "git branch failed",
              checks |-> sel.checks, query |-> sel.mainBranch]
        ELSE [branches |-> UnmergedScan(e.remoteListing, 1, e.now + e.lag), err |-> "",
              checks |-> sel.checks, query |-> sel.mainBranch]

----------------------------------------------------------------------------
(* shouldSkipFile.                                                         *)

skipPatterns ==
    << <<".", "g", "i", "t", "/">>,
       <<"n", "o", "d", "e", "_", "m", "o", "d", "u", "l", "e", "s", "/">>,
       <<"v", "e", "n", "d", "o", "r", "/">>,
       <<".", "v", "s", "c", "o", "d", "e", "/">>,
       <<".", "i", "d", "e", "a", "/">>,
       <<"b", "u", "i", "l", "d", "/">>,
       <<"d", "i", "s", "t", "/">>,
       <<"t", "a", "r", "g", "e", "t", "/">>,
       <<"b", "i", "n", "/">>,
       <<"o", "b", "j", "/">> >>

skipExtensions ==
    << <<".", "e", "x", "e">>,
       <<".", "d", "l", "l">>,
       <<".", "s", "o">>,
       <<".", "d", "y", "l", "i", "b">>,
       <<".", "a">>,
       <<".", "l", "i", "b">>,
       <<".", "j", "p", "g">>,
       <<".", "j", "p", "e", "g">>,
       <<".", "p", "n", "g">>,
       <<".", "g", "i", "f">>,
       <<".", "i", "c", "o">>,
       <<".", "s", "v", "g">>,
       <<".", "p", "d", "f">>,
       <<".", "d", "o", "c">>,
       <<".", "d", "o", "c", "x">>,
       <<".", "x", "l", "s">>,
       <<".", "x", "l", "s", "x">>,
       <<".", "z", "i", "p">>,
       <<".", "t", "a", "r">>,
       <<".", "g", "z">>,
       <<".", "7", "z">>,
       <<".", "r", "a", "r">>,
       <<".", "m", "p", "3">>,
       <<".", "m", "p", "4">>,
       <<".", "a", "v", "i">>,
       <<".", "m", "o", "v">> >>

\* filepath.Ext: the suffix from the last dot of the last path element; the
\* scan runs backwards from index i and stops at a separator.
RECURSIVE ExtFrom(_, _)
ExtFrom(path, i) ==
    IF i < 1 \/ path[i] = "/" THEN <<>>
    ELSE IF path[i] = "." THEN SubSeq(path, i, Len(path))
    ELSE ExtFrom(path, i - 1)

Ext(path) == ExtFrom(path, Len(path))

\* shouldSkipFile
shouldSkipFile(path) ==
    \/ \E k \in 1..Len(skipPatterns) : Contains(path, skipPatterns[k])
    \/ ToLower(Ext(path)) \in Range(skipExtensions)

----------------------------------------------------------------------------
(* todoRegex, case-insensitive: group 1 is one of TODO, FIXME, XXX, HACK;  *)
(* then \s*, an optional ":" or "-", \s*; group 2 is the rest of the line. *)

todoMarkers ==
    << <<"T", "O", "D", "O">>,
       <<"F", "I", "X", "M", "E">>,
       <<"X", "X", "X">>,
       <<"H", "A", "C", "K">> >>

Separators == {":", "-"}

Min(S) == CHOOSE x \in S : \A y \in S : x <= y

\* \s* from index j: the first index at or after j that holds no whitespace.
RECURSIVE SkipSpaces(_, _)
SkipSpaces(line, j) ==
    IF j <= Len(line) /\ line[j] \in Whitespace THEN SkipSpaces(line, j + 1) ELSE j

\* A mutation of TrailingFrom: the separator is not consumed.
TrailingFromKeepSeparator(line, j) ==
    SubSeq(line, SkipSpaces(line, j), Len(line))

\* The pattern after group 1, from index j: every quantifier is greedy and
\* group 2 accepts whatever is left, so the first choice of each is the match.
TrailingFrom(line, j) ==
    LET a == SkipSpaces(line, j)
        b == IF a <= Len(line) /\ line[a] \in Separators THEN a + 1 ELSE a
        c == SkipSpaces(line, b)
    IN  SubSeq(line, c, Len(line))

\* todoRegex.FindStringSubmatch(line): the leftmost match, its first group m1
\* (the marker as written) and second group m2; ok is FALSE for "no match".
FindStringSubmatch(line) ==
    LET up == ToUpper(line)
        starts == {i \in 1..Len(line) :
                     \E k \in 1..Len(todoMarkers) : OccursAt(up, todoMarkers[k], i)}
    IN  IF starts = {} THEN [ok |-> FALSE, m1 |-> <<>>, m2 |-> <<>>]
        ELSE LET i == Min(starts)
                 k == CHOOSE k \in 1..Len(todoMarkers) : OccursAt(up, todoMarkers[k], i)
                 n == Len(todoMarkers[k])
             IN  [ok |-> TRUE,
                  m1 |-> SubSeq(line, i, i + n - 1),
                  m2 |-> TrailingFrom(line, i + n)]

----------------------------------------------------------------------------
(* getLineAge, findTodoComments.                                           *)

\* getLineAge on what "git blame --porcelain" gives for the line: the command
\* fails, or its output has no committer-time line, or the number after
\* committer-time does not parse, or it is the instant b.ts.
getLineAge(b) ==
    IF ~b.cmdOk THEN [ok |-> FALSE, ts |-> 0]
    ELSE IF ~b.committerTime THEN [ok |-> FALSE, ts |-> 0]
    ELSE IF ~b.parses THEN [ok |-> FALSE, ts |-> 0]
    ELSE [ok |-> TRUE, ts |-> b.ts]

\* A mutation of FallbackAge: the cutoff itself.
FallbackAgeAtCutoff(cutoffDate, zone) == AddDate(cutoffDate, 0, zone)

\* The age given to a line whose attribution failed: cutoffDate.AddDate(0, 0, -1).
FallbackAge(cutoffDate, zone) == AddDate(cutoffDate, -1, zone)

\* The scan loop of the walk callback over a file's lines from line n on.
RECURSIVE ScanLines(_, _, _, _)
ScanLines(f, n, cutoffDate, e) ==
    IF n > Len(f.lines) THEN <<>>
    ELSE LET line == f.lines[n].text
             matches == FindStringSubmatch(line)
             rest == ScanLines(f, n + 1, cutoffDate, e)
             got == getLineAge(f.lines[n].blame)
             age == IF got.ok THEN got.ts ELSE FallbackAge(cutoffDate, e.zone1)
         IN  IF matches.ok /\ Before(age, cutoffDate)
             THEN << [File    |-> f.path,
                      Line    |-> n,
                      Content |-> IF matches.m2 = <<>> THEN line ELSE matches.m2,
                      Type    |-> ToUpper(matches.m1),
                      Age     |-> age,
                      DaysOld |-> DaysOf(Sub(e.now + e.lag, age))] >> \o rest
             ELSE rest

\* filepath.Walk over the tree's entries (in walk order) from entry i on, with
\* the callback of findTodoComments: todos found so far, the files opened so
\* far, and the error that ends the walk ("" when it runs to the end).
RECURSIVE Walk(_, _, _, _, _)
Walk(e, i, cutoffDate, todos, opened) ==
    IF i > Len(e.tree) THEN [todos |-> todos, err |-> "", opened |-> opened]
    ELSE LET f == e.tree[i]
         IN  IF ~f.walkOk
             THEN [todos |-> todos, err |-> "walk error", opened |-> opened]
             ELSE IF f.isDir \/ shouldSkipFile(f.path)
             THEN Walk(e, i + 1, cutoffDate, todos, opened)
             ELSE IF ~f.openOk
             THEN [todos |-> todos, err |-> "open error", opened |-> opened]
             ELSE LET found == todos \o ScanLines(f, 1, cutoffDate, e)
                      seen == Append(opened, f.path)
                  IN  IF ~f.scanOk
                      THEN [todos |-> found, err |-> "scan error", opened |-> seen]
                      ELSE Walk(e, i + 1, cutoffDate, found, seen)

\* findTodoComments: time.Now() reads e.now; each time.Since reads e.now + e.lag.
findTodoComments(todoDays, e) ==
    Walk(e, 1, AddDate(e.now, -todoDays, e.zone), <<>>, <<>>)

\* The tally of analyzeTodoComments: how many items have the given type.
CountType(todos, type) == Cardinality({i \in 1..Len(todos) : ToUpper(todos[i].Type) = type})

----------------------------------------------------------------------------
(* The analyses: what each leaves behind when it has run.                  *)

NotRun == [called |-> FALSE]

\* analyzeStaleBranches(staleDays)
analyzeStaleBranches(staleDays, e) ==
    LET r == getStaleBranches(staleDays, e)
    IN  IF r.err # ""
        THEN [called |-> TRUE, branches |-> r.branches, err |-> r.err,
              report |-> "error", printed |-> <<>>]
        ELSE IF Len(r.branches) = 0
        THEN [called |-> TRUE, branches |-> r.branches, err |-> r.err,
              report |-> "none found", printed |-> <<>>]
        ELSE [called |-> TRUE, branches |-> r.branches, err |-> r.err,
              report |-> "list", printed |-> SortSlice(r.branches, "stale")]

\* analyzeUnmergedPRs()
analyzeUnmergedPRs(e) ==
    LET r == getUnmergedBranches(e)
    IN  [called |-> TRUE, branches |-> r.branches, err |-> r.err,
         checks |-> r.checks, query |-> r.query,
         report |-> IF r.err # "" THEN "error"
                    ELSE IF Len(r.branches) = 0 THEN "none found" ELSE "list",
         printed |-> IF r.err # "" THEN <<>> ELSE r.branches]

\* analyzeTodoComments(todoDays)
analyzeTodoComments(todoDays, e) ==
    LET r == findTodoComments(todoDays, e)
        sorted == SortSlice(r.todos, "todo")
    IN  IF r.err # ""
        THEN [called |-> TRUE, todos |-> r.todos, err |-> r.err, opened |-> r.opened,
              report |-> "error", printed |-> <<>>, todoCount |-> 0, fixmeCount |-> 0]
        ELSE IF Len(r.todos) = 0
        THEN [called |-> TRUE, todos |-> r.todos, err |-> r.err, opened |-> r.opened,
              report |-> "none found", printed |-> <<>>, todoCount |-> 0, fixmeCount |-> 0]
        ELSE [called |-> TRUE, todos |-> r.todos, err |-> r.err, opened |-> r.opened,
              report |-> "list", printed |-> sorted,
              todoCount |-> CountType(sorted, todoMarkers[1]),
              fixmeCount |-> CountType(sorted, todoMarkers[2])]

----------------------------------------------------------------------------
(* main.                                                                   *)

\* The order in which main considers the analyses.
mainOrder == <<"branches", "prs", "todos">>

\* Where main goes after the step for an analysis.
StageAfter(stage) ==
    LET i == CHOOSE k \in 1..Len(mainOrder) : mainOrder[k] = stage
    IN  IF i < Len(mainOrder) THEN mainOrder[i + 1] ELSE "return"

\* What an analysis that ran adds to the record of events.
Ran(stage) == <<<<"start", stage>>, <<"end", stage>>>>

\* config := parseFlags()
ParseFlags ==
    /\ pc = "start"
    /\ config' = parseFlags(args)
    /\ pc' = "parsed"
    /\ UNCHANGED <<args, env, exitCode, events, logs, stale, unmerged, todo>>

\* if config.ShowHelp { printUsage(); return }
PrintUsage ==
    /\ pc = "parsed"
    /\ config.ShowHelp
    /\ pc' = "exit"
    /\ exitCode' = 0
    /\ UNCHANGED <<args, env, config, events, logs, stale, unmerged, todo>>

\* validateGitRepo(config.RepoPath), fatal on error
ValidateGitRepo ==
    /\ pc = "parsed"
    /\ ~config.ShowHelp
    /\ IF validateGitRepo(env) # ""
       THEN /\ logs' = Append(logs, [msg |-> "Error", err |-> validateGitRepo(env)])
            /\ exitCode' = 1
            /\ pc' = "exit"
       ELSE /\ pc' = "chdir"
            /\ UNCHANGED <<logs, exitCode>>
    /\ UNCHANGED <<args, env, config, events, stale, unmerged, todo>>

\* os.Getwd(), os.Chdir(config.RepoPath), each fatal on error
Chdir ==
    /\ pc = "chdir"
    /\ IF ~env.getwdOk
       THEN /\ logs' = Append(logs, [msg |-> "Failed to get current directory", err |-> "getwd"])
            /\ exitCode' = 1
            /\ pc' = "exit"
       ELSE IF ~env.chdirOk
       THEN /\ logs' = Append(logs, [msg |-> "Failed to change to repo directory", err |-> "chdir"])
            /\ exitCode' = 1
            /\ pc' = "exit"
       ELSE /\ pc' = mainOrder[1]
            /\ UNCHANGED <<logs, exitCode>>
    /\ UNCHANGED <<args, env, config, events, stale, unmerged, todo>>

\* if config.CheckBranches { analyzeStaleBranches(config.StaleDays) }
StaleBranchesStep ==
    /\ pc = "branches"
    /\ IF config.CheckBranches
       THEN LET r == analyzeStaleBranches(config.StaleDays, env)
            IN  /\ stale' = r
                /\ events' = events \o Ran("branches")
                /\ logs' = IF r.err # ""
                           THEN Append(logs, [msg |-> "Error analyzing branches", err |-> r.err])
                           ELSE logs
       ELSE UNCHANGED <<stale, events, logs>>
    /\ pc' = StageAfter("branches")
    /\ UNCHANGED <<args, env, config, exitCode, unmerged, todo>>

\* A mutation of UnmergedPRsStep: an error of the analysis ends the process.
UnmergedPRsStepFatal ==
    /\ pc = "prs"
    /\ IF config.CheckPRs
       THEN LET r == analyzeUnmergedPRs(env)
            IN  /\ unmerged' = r
                /\ events' = events \o Ran("prs")
                /\ logs' = IF r.err # ""
                           THEN Append(logs, [msg |-> "Error analyzing unmerged branches", err |-> r.err])
                           ELSE logs
                /\ pc' = IF r.err # "" THEN "exit" ELSE StageAfter("prs")
                /\ exitCode' = IF r.err # "" THEN 1 ELSE exitCode
       ELSE /\ pc' = StageAfter("prs")
            /\ UNCHANGED <<unmerged, events, logs, exitCode>>
    /\ UNCHANGED <<args, env, config, stale, todo>>

\* if config.CheckPRs { analyzeUnmergedPRs() }
UnmergedPRsStep ==
    /\ pc = "prs"
    /\ IF config.CheckPRs
       THEN LET r == analyzeUnmergedPRs(env)
            IN  /\ unmerged' = r
                /\ events' = events \o Ran("prs")
                /\ logs' = IF r.err # ""
                           THEN Append(logs, [msg |-> "Error analyzing unmerged branches", err |-> r.err])
                           ELSE logs
       ELSE UNCHANGED <<unmerged, events, logs>>
    /\ pc' = StageAfter("prs")
    /\ UNCHANGED <<args, env, config, exitCode, stale, todo>>

\* if config.CheckTodos { analyzeTodoComments(config.TodoDays) }
TodoCommentsStep ==
    /\ pc = "todos"
    /\ IF config.CheckTodos
       THEN LET r == analyzeTodoComments(config.TodoDays, env)
            IN  /\ todo' = r
                /\ events' = events \o Ran("todos")
                /\ logs' = IF r.err # ""
                           THEN Append(logs, [msg |-> "Error analyzing TODO comments", err |-> r.err])
                           ELSE logs
       ELSE UNCHANGED <<todo, events, logs>>
    /\ pc' = StageAfter("todos")
    /\ UNCHANGED <<args, env, config, exitCode, stale, unmerged>>

\* main returns (the deferred os.Chdir runs): exit status 0
Return ==
    /\ pc = "return"
    /\ pc' = "exit"
    /\ exitCode' = 0
    /\ UNCHANGED <<args, env, config, events, logs, stale, unmerged, todo>>

Next ==
    \/ ParseFlags
    \/ PrintUsage
    \/ ValidateGitRepo
    \/ Chdir
    \/ StaleBranchesStep
    \/ UnmergedPRsStep
    \/ TodoCommentsStep
    \/ Return

----------------------------------------------------------------------------
(* Inputs: command lines, repositories, file trees, clocks.                *)

\* The flag defaults of -stale-days and -todo-days.
DefaultStaleDays == 30
DefaultTodoDays == 90

\* The instant of time.Now() at the start of an analysis.
Now == NowHours * TicksPerHour

\* Branch names.
sFeature == <<"f", "e", "a", "t", "u", "r", "e">>
sOriginFeature == <<"o", "r", "i", "g", "i", "n", "/", "f", "e", "a", "t", "u", "r", "e">>
sOriginHEAD == <<"o", "r", "i", "g", "i", "n", "/", "H", "E", "A", "D">>
sOriginFix == <<"o", "r", "i", "g", "i", "n", "/", "f", "i", "x">>

\* Listing lines.
BlankLine == [kind |-> "blank", name |-> <<>>, date |-> [ok |-> FALSE, ts |-> 0], author |-> ""]
ShortLine == [kind |-> "short", name |-> sFeature, date |-> [ok |-> FALSE, ts |-> 0], author |-> ""]
Rec(name, ts) == [kind |-> "rec", name |-> name, date |-> [ok |-> TRUE, ts |-> ts], author |-> "alice"]
BadDateRec(name) == [kind |-> "rec", name |-> name, date |-> [ok |-> FALSE, ts |-> 0], author |-> "bob"]

DaysAgo(n) == Now - n * Day

\* A listing with every kind of line: blank, short, a HEAD pointer, a record
\* with a date that does not parse, an old branch, an older remote one, a new one.
BaseListing ==
    << BlankLine, ShortLine, Rec(sOriginHEAD, DaysAgo(400)), BadDateRec(sOriginFix),
       Rec(sFeature, DaysAgo(45)), Rec(sOriginFeature, DaysAgo(100)), Rec(sOriginFix, DaysAgo(3)) >>

\* Paths and lines.
pMainGo == <<"m", "a", "i", "n", ".", "g", "o">>
pSrcDir == <<"s", "r", "c">>
pSrcUtilGo == <<"s", "r", "c", "/", "u", "t", "i", "l", ".", "g", "o">>
pGitConfig == <<".", "g", "i", "t", "/", "c", "o", "n", "f", "i", "g">>
pLogoPNG == <<"l", "o", "g", "o", ".", "P", "N", "G">>

lTodoFix == <<"/", "/", " ", "T", "O", "D", "O", ":", " ", "f", "i", "x", " ", "t", "h", "i", "s">>
lFixmeBroken == <<"/", "/", " ", "F", "I", "X", "M", "E", " ", "b", "r", "o", "k", "e", "n">>
lFixmeBare == <<"/", "/", " ", "F", "I", "X", "M", "E">>
lPlain == <<"x", " ", ":", "=", " ", "1">>
lHackDash == <<"/", "*", " ", "h", "a", "c", "k", " ", "-", " ", "l", "a", "t", "e", "r", " ", "*", "/">>

\* git blame outcomes.
BlameAt(ts) == [cmdOk |-> TRUE, committerTime |-> TRUE, parses |-> TRUE, ts |-> ts]
BlameCmdFails == [cmdOk |-> FALSE, committerTime |-> FALSE, parses |-> FALSE, ts |-> 0]
BlameNoCommitterTime == [cmdOk |-> TRUE, committerTime |-> FALSE, parses |-> FALSE, ts |-> 0]
BlameBadNumber == [cmdOk |-> TRUE, committerTime |-> TRUE, parses |-> FALSE, ts |-> 0]
BlameFailures == {BlameCmdFails, BlameNoCommitterTime, BlameBadNumber}

SrcLine(text, blame) == [text |-> text, blame |-> blame]
File(path, lines) ==
    [path |-> path, isDir |-> FALSE, walkOk |-> TRUE, openOk |-> TRUE, scanOk |-> TRUE, lines |-> lines]
Dir(path) ==
    [path |-> path, isDir |-> TRUE, walkOk |-> TRUE, openOk |-> TRUE, scanOk |-> TRUE, lines |-> <<>>]

BaseFiles ==
    << File(pGitConfig, <<SrcLine(lTodoFix, BlameAt(DaysAgo(500)))>>),
       File(pLogoPNG, <<SrcLine(lTodoFix, BlameCmdFails)>>),
       File(pMainGo, << SrcLine(lPlain, BlameAt(DaysAgo(200))),
                        SrcLine(lFixmeBroken, BlameAt(DaysAgo(95))),
                        SrcLine(lTodoFix, BlameAt(DaysAgo(100))),
                        SrcLine(lHackDash, BlameAt(DaysAgo(10))),
                        SrcLine(lFixmeBare, BlameNoCommitterTime) >>),
       Dir(pSrcDir),
       File(pSrcUtilGo, << SrcLine(lTodoFix, BlameBadNumber),
                           SrcLine(lFixmeBroken, BlameAt(DaysAgo(300))) >>) >>

\* The base tree, and the same tree with the last entry unreachable for the
\* walk, unopenable, or failing while it is read.
BaseTrees ==
    { BaseFiles,
      [BaseFiles EXCEPT ![5].walkOk = FALSE],
      [BaseFiles EXCEPT ![5].openOk = FALSE],
      [BaseFiles EXCEPT ![5].scanOk = FALSE],
      <<>> }

\* A healthy run's surroundings.
BaseEnv ==
    [isRepo |-> TRUE, getwdOk |-> TRUE, chdirOk |-> TRUE,
     now |-> Now, lag |-> 0, zone |-> 0, zone1 |-> 0,
     branchCmdOk |-> TRUE, listing |-> BaseListing,
     refs |-> {"main"}, unmergedCmdOk |-> TRUE, remoteListing |-> BaseListing,
     tree |-> BaseFiles]

BaseEnvs ==
    { [BaseEnv EXCEPT !.branchCmdOk = b, !.refs = r, !.unmergedCmdOk = u, !.tree = t] :
        b \in BOOLEAN, r \in SUBSET Range(mainBranches), u \in BOOLEAN, t \in BaseTrees }
    \cup { [BaseEnv EXCEPT !.isRepo = FALSE],
           [BaseEnv EXCEPT !.getwdOk = FALSE],
           [BaseEnv EXCEPT !.chdirOk = FALSE] }

Args(h, b, p, t, sd, td) ==
    [help |-> h, branches |-> b, prs |-> p, todos |-> t, staleDays |-> sd, todoDays |-> td]

BaseArgs ==
    { Args(h, b, p, t, DefaultStaleDays, DefaultTodoDays) :
        h \in BOOLEAN, b \in BOOLEAN, p \in BOOLEAN, t \in BOOLEAN }

\* Config{}: the value of config before parseFlags has returned.
ZeroConfig ==
    [ShowHelp |-> FALSE, StaleDays |-> 0, TodoDays |-> 0,
     CheckBranches |-> FALSE, CheckPRs |-> FALSE, CheckTodos |-> FALSE]

\* The state when the process starts, for command line a and surroundings e.
Start(a, e) ==
    /\ pc = "start"
    /\ args = a
    /\ env = e
    /\ config = ZeroConfig
    /\ exitCode = -1
    /\ events = <<>>
    /\ logs = <<>>
    /\ stale = NotRun
    /\ unmerged = NotRun
    /\ todo = NotRun

Init == \E a \in BaseArgs, e \in BaseEnvs : Start(a, e)

Spec == Init /\ [][Next]_vars

----------------------------------------------------------------------------
(* Inputs around the cutoff: thresholds of either sign and beyond the      *)
(* range of a Duration, zone shifts, a clock that moves between the        *)
(* readings, and timestamps just before, at and just after the cutoff.     *)

Thresholds == {-HugeDays, -1, 0, 1, HugeDays}

Lags == {0, 1}

\* Timestamps within an hour and a tick of the nominal cutoff for threshold T.
NearCutoff(T) == {Now - T * Day + k : k \in -(TicksPerHour + 1)..(TicksPerHour + 1)}

\* A timestamp further in the future than a Duration reaches.
FarFuture == Now + MaxDuration + Day

\* git's timestamps are unsigned: no instant before the epoch.
Stamps(T) == {s \in NearCutoff(T) \cup {FarFuture} : s >= 0}

SeqsUpTo(S, n) == UNION {[1..k -> S] : k \in 0..n}

AgeListings(T) == SeqsUpTo({Rec(sFeature, s) : s \in Stamps(T)}, MaxBranches)

AgeBlames(T) == {BlameCmdFails} \cup {BlameAt(s) : s \in Stamps(T)}

InitAgeBranches ==
    \E T \in Thresholds, z \in ZoneShifts, l \in Lags :
      \E L \in AgeListings(T) :
        Start(Args(FALSE, TRUE, FALSE, FALSE, T, DefaultTodoDays),
              [BaseEnv EXCEPT !.zone = z, !.lag = l, !.listing = L])

InitAgeTodos ==
    \E T \in Thresholds, z \in ZoneShifts, z1 \in ZoneShifts, l \in Lags :
      \E b \in AgeBlames(T) :
        Start(Args(FALSE, FALSE, FALSE, TRUE, DefaultStaleDays, T),
              [BaseEnv EXCEPT !.zone = z, !.zone1 = z1, !.lag = l,
                              !.tree = <<File(pMainGo, <<SrcLine(lTodoFix, b)>>)>>])

InitAge == Init \/ InitAgeBranches \/ InitAgeTodos

SpecAge == InitAge /\ [][Next]_vars

----------------------------------------------------------------------------
(* Inputs for the sort: lists of old records in every order, with ties.    *)

SortAges == {100, 150, 200}

SortRecs == {Rec(n, DaysAgo(a)) : n \in {sFeature, sOriginFix}, a \in SortAges}

SortLines == {SrcLine(x, BlameAt(DaysAgo(a))) : x \in {lTodoFix, lFixmeBare}, a \in SortAges}

InitSortBranches ==
    \E L \in SeqsUpTo(SortRecs, MaxSorted) :
      Start(Args(FALSE, TRUE, FALSE, FALSE, DefaultStaleDays, DefaultTodoDays),
            [BaseEnv EXCEPT !.listing = L])

InitSortTodos ==
    \E L \in SeqsUpTo(SortLines, MaxSorted) :
      Start(Args(FALSE, FALSE, FALSE, TRUE, DefaultStaleDays, DefaultTodoDays),
            [BaseEnv EXCEPT !.tree = <<File(pMainGo, L)>>])

InitSort == Init \/ InitSortBranches \/ InitSortTodos

SpecSort == InitSort /\ [][Next]_vars

----------------------------------------------------------------------------
(* Inputs for the walk: trees of files under plain, denied and look-alike  *)
(* directories, with plain and denied extensions.                          *)

WalkDirs ==
    { <<>>,
      <<"s", "r", "c", "/">>,
      <<"b", "i", "n", "/">>,
      <<"c", "a", "b", "i", "n", "/">>,
      <<"r", "e", "b", "u", "i", "l", "d", "/">>,
      <<"s", "r", "c", "/", "v", "e", "n", "d", "o", "r", "/">>,
      <<".", "g", "i", "t", "h", "u", "b", "/">> }

WalkNames ==
    { <<"m", "a", "i", "n", ".", "g", "o">>,
      <<"l", "o", "g", "o", ".", "P", "N", "G">>,
      <<"l", "i", "b", ".", "s", "o">>,
      <<"b", "i", "n">>,
      <<"n", "o", "t", "e", "s", ".", "t", "a", "r", ".", "g", "z">> }

WalkPaths == {d \o n : d \in WalkDirs, n \in WalkNames}

\* Sequences of at most n distinct paths.
DistinctSeqs(S, n) ==
    {s \in SeqsUpTo(S, n) : \A i, j \in 1..Len(s) : i # j => s[i] # s[j]}

WalkTrees ==
    { [i \in 1..Len(ps) |-> File(ps[i], <<SrcLine(lTodoFix, BlameCmdFails)>>)] :
        ps \in DistinctSeqs(WalkPaths, MaxFiles) }

InitWalk ==
    \/ Init
    \/ \E tr \in WalkTrees :
         Start(Args(FALSE, FALSE, FALSE, TRUE, DefaultStaleDays, DefaultTodoDays),
               [BaseEnv EXCEPT !.tree = tr])

SpecWalk == InitWalk /\ [][Next]_vars

----------------------------------------------------------------------------
(* Inputs for the pattern: lines put together from a prefix, a marker (or  *)
(* none), whitespace, separators, whitespace and a tail.                   *)

LinePrefixes ==
    { <<>>,
      <<"/", "/", " ">> }
LineMarkers ==
    { <<"T", "O", "D", "O">>,
      <<"f", "i", "x", "m", "e">>,
      <<"X", "x", "x">>,
      <<"H", "A", "C", "K">>,
      <<"T", "o", "D", "o">>,
      <<"N", "O", "T", "E">> }
LineSpaces ==
    { <<>>,
      <<" ">>,
      <<"\t", " ">> }
LineSeparators ==
    { <<>>,
      <<":">>,
      <<"-">>,
      <<":", "-">> }
LineTails ==
    { <<>>,
      <<"b", "r", "o", "k", "e", "n">>,
      <<"a", " ", "T", "O", "D", "O", " ", "b">> }

Lines ==
    { p \o m \o w1 \o s \o w2 \o x :
        p \in LinePrefixes, m \in LineMarkers, w1 \in LineSpaces, s \in LineSeparators,
        w2 \in LineSpaces, x \in LineTails }

InitLines ==
    \/ Init
    \/ \E x \in Lines :
         Start(Args(FALSE, FALSE, FALSE, TRUE, DefaultStaleDays, DefaultTodoDays),
               [BaseEnv EXCEPT !.tree = <<File(pMainGo, <<SrcLine(x, BlameCmdFails)>>)>>])

SpecLines == InitLines /\ [][Next]_vars

----------------------------------------------------------------------------
(* Properties.                                                             *)

\* The clock reading of time.Since.
SinceClock == env.now + env.lag

\* The cutoffs the analyses compute.
StaleCutoff == AddDate(env.now, -config.StaleDays, env.zone)
TodoCutoff == AddDate(env.now, -config.TodoDays, env.zone)

\* The tree's entry for a path, and the source line a TODO item was taken from.
EntryOf(path) == env.tree[CHOOSE i \in 1..Len(env.tree) : env.tree[i].path = path]
LineOf(item) == EntryOf(item.File).lines[item.Line]

\* Whether a line holds one of the markers, in any case.
HasMarker(text) == \E k \in 1..Len(todoMarkers) : Contains(ToUpper(text), todoMarkers[k])

\* Whether main got past validation and the directory change.
SetUp == env.isRepo /\ env.getwdOk /\ env.chdirOk /\ pc # "start" /\ ~config.ShowHelp

\* C1: every record getStaleBranches returns has DaysStale >= staleDays and
\* every record findTodoComments returns has DaysOld >= todoDays.
C1_AgeAtLeastThreshold ==
    /\ stale.called =>
         \A i \in 1..Len(stale.branches) : stale.branches[i].DaysStale >= config.StaleDays
    /\ todo.called =>
         \A i \in 1..Len(todo.todos) : todo.todos[i].DaysOld >= config.TodoDays

\* C2: every line that findTodoComments scanned, that holds a marker and whose
\* attribution failed (in any of the three ways) is in the returned list, with
\* an age one calendar day before the cutoff, whatever todoDays is; and an
\* error of the analysis is a walk, open or read error of the tree, never an
\* attribution failure.
C2_FailOpen ==
    todo.called =>
      /\ \A i \in 1..Len(env.tree) :
           LET f == env.tree[i]
           IN  f.path \in Range(todo.opened) =>
                 \A n \in 1..Len(f.lines) :
                   (HasMarker(f.lines[n].text) /\ f.lines[n].blame \in BlameFailures) =>
                     \E k \in 1..Len(todo.todos) :
                       /\ todo.todos[k].File = f.path
                       /\ todo.todos[k].Line = n
                       /\ todo.todos[k].Age = AddDate(TodoCutoff, -1, env.zone1)
                       /\ todo.todos[k].Age < TodoCutoff
      /\ todo.err # "" =>
           \E i \in 1..Len(env.tree) :
             ~env.tree[i].walkOk \/ ~env.tree[i].openOk \/ ~env.tree[i].scanOk
      /\ \A i \in 1..Len(logs) : logs[i].msg = "Error analyzing TODO comments" =>
           logs[i].err \in {"walk error", "open error", "scan error"}

\* A line whose attribution failed is in the list returned for a threshold
\* beyond the range of a Duration, and for a negative one.
C2_Witness ==
    /\ todo.called
    /\ config.TodoDays \in {HugeDays, -1}
    /\ \E k \in 1..Len(todo.todos) : LineOf(todo.todos[k]).blame \in BlameFailures

\* The analyses in the order the specification gives them.
SpecifiedOrder == <<"branches", "prs", "todos">>

\* How many of the steps for the analyses main has completed.
StepsDone ==
    CASE pc = "prs" -> 1
      [] pc = "todos" -> 2
      [] pc = "return" -> 3
      [] pc = "exit" /\ SetUp -> 3
      [] OTHER -> 0

Toggle(stage) ==
    CASE stage = "branches" -> config.CheckBranches
      [] stage = "prs" -> config.CheckPRs
      [] stage = "todos" -> config.CheckTodos

\* The start and end events of the enabled analyses among the first n.
RECURSIVE ExpectedEvents(_)
ExpectedEvents(n) ==
    IF n = 0 THEN <<>>
    ELSE ExpectedEvents(n - 1) \o
         (IF Toggle(SpecifiedOrder[n])
          THEN <<<<"start", SpecifiedOrder[n]>>, <<"end", SpecifiedOrder[n]>>>>
          ELSE <<>>)

Logged(msg) == \E i \in 1..Len(logs) : logs[i].msg = msg

\* C3: after set-up, the analyses that have started are exactly the enabled
\* ones among the steps main has completed, each started once and finished
\* before the next starts, in the order stale branches, unmerged branches,
\* TODO comments; a failed analysis is logged; and the process ends with
\* exit status 0 whatever failed.
C3_AnalysesIsolated ==
    /\ events = ExpectedEvents(StepsDone)
    /\ (stale.called /\ stale.err # "") => Logged("Error analyzing branches")
    /\ (unmerged.called /\ unmerged.err # "") => Logged("Error analyzing unmerged branches")
    /\ (todo.called /\ todo.err # "") => Logged("Error analyzing TODO comments")
    /\ (pc = "exit" /\ SetUp) => exitCode = 0

\* All three analyses ran although each of them failed, and the exit status is 0.
C3_Witness ==
    /\ pc = "exit" /\ exitCode = 0
    /\ stale.called /\ stale.err # ""
    /\ unmerged.called /\ unmerged.err = "no main branch found (main, master, or develop)"
    /\ todo.called /\ todo.err # ""
    /\ Len(events) = 6

\* The directory names of a path: its elements but the last.
DirNamesOf(path) ==
    { SubSeq(path, a, b) : <<a, b>> \in
        { ab \in (1..Len(path)) \X (1..Len(path)) :
            /\ ab[1] <= ab[2]
            /\ (ab[1] = 1 \/ path[ab[1] - 1] = "/")
            /\ ab[2] < Len(path) /\ path[ab[2] + 1] = "/"
            /\ \A k \in ab[1]..ab[2] : path[k] # "/" } }

DeniedDirNames == {SubSeq(skipPatterns[k], 1, Len(skipPatterns[k]) - 1) : k \in 1..Len(skipPatterns)}

UnderDeniedDir(path) == DirNamesOf(path) \cap DeniedDirNames # {}

DeniedExtension(path) == ToLower(Ext(path)) \in Range(skipExtensions)

TimesOpened(path) == Cardinality({i \in 1..Len(todo.opened) : todo.opened[i] = path})

\* C4: when the walk runs to its end, a regular file is scanned exactly once if
\* it is under no directory with a denied name and has no denied extension, and
\* not at all otherwise.
C4_ScannedIffNotDenied ==
    (todo.called /\ todo.err = "") =>
      \A i \in 1..Len(env.tree) :
        ~env.tree[i].isDir =>
          TimesOpened(env.tree[i].path) =
            IF UnderDeniedDir(env.tree[i].path) \/ DeniedExtension(env.tree[i].path)
            THEN 0 ELSE 1

sBroken == <<"b", "r", "o", "k", "e", "n">>
sFixThis == <<"f", "i", "x", " ", "t", "h", "i", "s">>

ItemsOfLine(text) == {k \in 1..Len(todo.todos) : LineOf(todo.todos[k]).text = text}

\* C5: the record for the line "// FIXME broken" has kind FIXME and the whole
\* line as its body.
C5_FixmeBrokenWholeLine ==
    todo.called =>
      \A k \in ItemsOfLine(lFixmeBroken) :
        /\ todo.todos[k].Type = todoMarkers[2]
        /\ todo.todos[k].Content = lFixmeBroken

\* What follows the leftmost marker of a line that has one.
AfterMarker(text) ==
    LET up == ToUpper(text)
        ends == {i + Len(todoMarkers[k]) : <<i, k>> \in
                   {ik \in (1..Len(text)) \X (1..Len(todoMarkers)) :
                      OccursAt(up, todoMarkers[ik[2]], ik[1])}}
    IN  SubSeq(text, Min(ends), Len(text))

\* Nothing but whitespace and at most one separator.
OnlyFiller(s) ==
    /\ \A i \in 1..Len(s) : s[i] \in Whitespace \cup Separators
    /\ Cardinality({i \in 1..Len(s) : s[i] \in Separators}) <= 1

IsSuffix(s, text) ==
    Len(s) <= Len(text) /\ SubSeq(text, Len(text) - Len(s) + 1, Len(text)) = s

\* C5 (amended): the record for "// FIXME broken" has kind FIXME and body
\* "broken"; the record for "// FIXME" has the whole line as body, and the one
\* for "// TODO: fix this" has body "fix this".  In general the body is a
\* non-empty suffix of the line, and it is the whole line exactly when nothing
\* but whitespace and at most one separator follows the marker.
C5_BodyIsTrailingText ==
    todo.called =>
      /\ \A k \in ItemsOfLine(lFixmeBroken) :
           todo.todos[k].Type = todoMarkers[2] /\ todo.todos[k].Content = sBroken
      /\ \A k \in ItemsOfLine(lFixmeBare) :
           todo.todos[k].Type = todoMarkers[2] /\ todo.todos[k].Content = lFixmeBare
      /\ \A k \in ItemsOfLine(lTodoFix) :
           todo.todos[k].Type = todoMarkers[1] /\ todo.todos[k].Content = sFixThis
      /\ \A k \in 1..Len(todo.todos) :
           LET text == LineOf(todo.todos[k]).text
               body == todo.todos[k].Content
           IN  /\ body # <<>>
               /\ IsSuffix(body, text)
               /\ (body = text) <=> OnlyFiller(AfterMarker(text))
      /\ \A i \in 1..Len(env.tree) :
           \A n \in 1..Len(env.tree[i].lines) :
             Cardinality({k \in 1..Len(todo.todos) :
                            todo.todos[k].File = env.tree[i].path /\ todo.todos[k].Line = n}) <= 1

\* A record for the line "// FIXME broken" was returned.
C5_Witness ==
    /\ todo.called
    /\ ItemsOfLine(lFixmeBroken) # {}
    /\ \E k \in 1..Len(todo.todos) :
         LineOf(todo.todos[k]).text # lFixmeBroken /\ todo.todos[k].Content = LineOf(todo.todos[k]).text

\* The name the specification selects for a set of existing branches.
FirstCandidate(refs) ==
    IF "main" \in refs THEN "main"
    ELSE IF "master" \in refs THEN "master"
    ELSE IF "develop" \in refs THEN "develop"
    ELSE ""

\* C6: the --no-merged query names the first of main, master, develop that
\* exists; the existence checks made are those up to and including that name
\* and none after it; when none exists the result is the error "no main branch
\* found", no branch record, all three checks and no query.
C6_FirstExistingMainLine ==
    unmerged.called =>
      /\ unmerged.query = FirstCandidate(env.refs)
      /\ unmerged.checks =
           CASE "main" \in env.refs -> <<"main">>
             [] "main" \notin env.refs /\ "master" \in env.refs -> <<"main", "master">>
             [] OTHER -> <<"main", "master", "develop">>
      /\ FirstCandidate(env.refs) = "" =>
           /\ unmerged.err = "no main branch found (main, master, or develop)"
           /\ unmerged.branches = <<>>
           /\ unmerged.printed = <<>>

\* master is chosen over develop when main does not exist.
C6_Witness ==
    /\ unmerged.called
    /\ env.refs = {"master", "develop"}
    /\ unmerged.query = "master"
    /\ unmerged.err = ""

\* The quotient of a difference of instants by a day, rounded down.
FloorDays(now, ts) == (now - ts) \div Day

\* C7: every stale-branch record and every TODO record whose attribution
\* succeeded stores floor((now - timestamp) / 24h), now being the clock read
\* when the age is computed.
C7_AgeIsFloor ==
    /\ stale.called =>
         \A i \in 1..Len(stale.branches) :
           stale.branches[i].DaysStale = FloorDays(SinceClock, stale.branches[i].LastCommit)
    /\ todo.called =>
         \A k \in 1..Len(todo.todos) :
           LineOf(todo.todos[k]).blame \notin BlameFailures =>
             todo.todos[k].DaysOld = FloorDays(SinceClock, todo.todos[k].Age)

\* (now - ts) limited to the range of a Duration, divided by a day, with the
\* fraction dropped.
TruncatedDays(now, ts) ==
    LET d == now - ts
        s == IF d > MaxDuration THEN MaxDuration ELSE IF d < -MaxDuration THEN -MaxDuration ELSE d
    IN  IF s >= 0 THEN s \div Day ELSE -((-s) \div Day)

\* C7 (amended): the stored age is (now - timestamp) / 24h with the fraction
\* dropped (rounded toward zero, not down), the difference being limited to the
\* range of a Duration; it is the floor when the timestamp is not after now and
\* within that range.
C7_AgeIsTruncated ==
    /\ stale.called =>
         \A i \in 1..Len(stale.branches) :
           LET b == stale.branches[i]
           IN  /\ b.DaysStale = TruncatedDays(SinceClock, b.LastCommit)
               /\ (b.LastCommit <= SinceClock /\ SinceClock - b.LastCommit <= MaxDuration) =>
                    b.DaysStale = FloorDays(SinceClock, b.LastCommit)
    /\ todo.called =>
         \A k \in 1..Len(todo.todos) :
           LET x == todo.todos[k]
           IN  LineOf(x).blame \notin BlameFailures =>
                 /\ x.Age = LineOf(x).blame.ts
                 /\ x.DaysOld = TruncatedDays(SinceClock, x.Age)
                 /\ (x.Age <= SinceClock /\ SinceClock - x.Age <= MaxDuration) =>
                      x.DaysOld = FloorDays(SinceClock, x.Age)

\* A record with a timestamp after now, not a whole number of days away.
C7_Witness ==
    \/ /\ stale.called
       /\ \E i \in 1..Len(stale.branches) :
            /\ stale.branches[i].LastCommit > SinceClock
            /\ (stale.branches[i].LastCommit - SinceClock) % Day # 0
    \/ /\ todo.called
       /\ \E k \in 1..Len(todo.todos) :
            /\ LineOf(todo.todos[k]).blame \notin BlameFailures
            /\ todo.todos[k].Age > SinceClock
            /\ (todo.todos[k].Age - SinceClock) % Day # 0

\* A record of a listing whose date does not parse (and that is no HEAD pointer).
HasBadDate(listing) ==
    \E i \in 1..Len(listing) :
      /\ listing[i].kind = "rec"
      /\ ~Contains(listing[i].name, sHEAD)
      /\ ~listing[i].date.ok

\* C8: when a record of the branch listing has a date that cannot be parsed,
\* the analysis logs the error and reports a skipped or partial result, never
\* a normal one.
C8_BadDateReported ==
    /\ (stale.called /\ stale.err = "" /\ HasBadDate(env.listing)) =>
         /\ Logged("Error analyzing branches")
         /\ stale.report \notin {"list", "none found"}
    /\ (unmerged.called /\ unmerged.err = "" /\ HasBadDate(env.remoteListing)) =>
         /\ Logged("Error analyzing unmerged branches")
         /\ unmerged.report \notin {"list", "none found"}

Count(s, x) == Cardinality({i \in 1..Len(s) : s[i] = x})

IsPermutation(s, u) ==
    /\ Len(s) = Len(u)
    /\ \A x \in Range(s) \cup Range(u) : Count(s, x) = Count(u, x)

====
